---- MODULE Spec2Model ----
(***************************************************************************)
(* ConsumerApp (pubsub/consumer_app.py): registration of handlers, run(),  *)
(* one receive loop per subscription, the per-message wrap_handler and     *)
(* cancel().  The Service Bus client, receiver and lock renewer are        *)
(* collaborators: their calls return or raise nondeterministically.        *)
(*                                                                         *)
(* Python strings are tuples of one-character strings, so that prefix      *)
(* tests, case conversion, f-string concatenation and split() are computed *)
(* as the code computes them.                                              *)
(***************************************************************************)
EXTENDS Integers, Sequences, FiniteSets, Bags, TLC

VARIABLES
    SUBSCRIBER_FILTER,          \* module constant read from the environment (line 33)
    event_classes,              \* StateChangeEventBase.get_event_classes()
    requests,                   \* the uses of @consume in the application's text
    _topic_to_event_class_map,  \* ConsumerApp._topic_to_event_class_map
    _subscriptions,             \* ConsumerApp._subscriptions
    _is_cancelled,              \* ConsumerApp._is_cancelled
    reg_error,                  \* exception raised out of consume(), "none" if none
    run_pc,                     \* position of the run() coroutine
    run_filter,                 \* the `filter` argument run() was called with
    client,                     \* the ServiceBusClient of run() and the SIGTERM handler
    runners,                    \* one _process_subscription coroutine per subscription
    delivered,                  \* messages handed out by receive_messages so far
    faults                      \* collaborator calls that raised so far

vars == << SUBSCRIBER_FILTER, event_classes, requests, _topic_to_event_class_map,
           _subscriptions, _is_cancelled, reg_error, run_pc, run_filter, client,
           runners, delivered, faults >>

----------------------------------------------------------------------------
(* Bounds of the model *)

MaxMessages == 2    \* messages delivered over one run, all runners together
MaxFaults == 1      \* collaborator calls that raise over one run

----------------------------------------------------------------------------
(* Python values *)

\* Optional[str] / Optional[list[str]]: is_none tells None from a value.
NoneStr == [is_none |-> TRUE, val |-> <<>>]
Some(v) == [is_none |-> FALSE, val |-> v]

\* Optional[int]: Python None is the integer -1 here (no override is negative).
NoneInt == -1

MAX_MESSAGE_COUNT == 10
MAX_WAIT_TIME == 30
MAX_LOCK_RENEWAL_DURATION == 300

StartsWith(s, p) == Len(s) >= Len(p) /\ SubSeq(s, 1, Len(p)) = p
EndsWith(s, p) == Len(s) >= Len(p) /\ SubSeq(s, Len(s) - Len(p) + 1, Len(s)) = p

UpperChars == << "A","B","C","D","E","F","G","H","I","J","K","L","M",
                 "N","O","P","Q","R","S","T","U","V","W","X","Y","Z" >>
LowerChars == << "a","b","c","d","e","f","g","h","i","j","k","l","m",
                 "n","o","p","q","r","s","t","u","v","w","x","y","z" >>
IsUpper(c) == \E i \in DOMAIN UpperChars : UpperChars[i] = c
ToLower(c) == IF IsUpper(c)
              THEN LowerChars[CHOOSE i \in DOMAIN UpperChars : UpperChars[i] = c]
              ELSE c

\* case.snake_to_kebab_case
snake_to_kebab_case(s) == [i \in 1..Len(s) |-> IF s[i] = "_" THEN "-" ELSE s[i]]

\* case.pascal_to_kebab_case
RECURSIVE pascal_to_kebab_case(_)
pascal_to_kebab_case(s) ==
    IF s = <<>> THEN <<>>
    ELSE LET init == pascal_to_kebab_case(SubSeq(s, 1, Len(s) - 1))
             c == s[Len(s)]
         IN IF IsUpper(c) /\ Len(s) > 1
            THEN init \o << "-", ToLower(c) >>
            ELSE Append(init, ToLower(c))

\* str.replace(old, ""): every occurrence of old is removed, left to right
RECURSIVE Remove(_, _)
Remove(s, old) ==
    IF s = <<>> THEN <<>>
    ELSE IF StartsWith(s, old) THEN Remove(SubSeq(s, Len(old) + 1, Len(s)), old)
    ELSE << s[1] >> \o Remove(Tail(s), old)

\* str.split(","): the pieces between commas, empty pieces kept
RECURSIVE Split(_)
Split(s) ==
    IF \A i \in DOMAIN s : s[i] # ","
    THEN << s >>
    ELSE LET k == CHOOSE i \in DOMAIN s : s[i] = "," /\ \A j \in 1..(i-1) : s[j] # ","
         IN << SubSeq(s, 1, k - 1) >> \o Split(SubSeq(s, k + 1, Len(s)))

InList(x, list) == \E i \in DOMAIN list : list[i] = x

----------------------------------------------------------------------------
(* ConsumerResult and the handler's return values *)

SUCCESS == [kind |-> "ConsumerResult", value |-> 0]
RETRY == [kind |-> "ConsumerResult", value |-> 1]
DROP == [kind |-> "ConsumerResult", value |-> 2]
PyNone == [kind |-> "NoneType", value |-> 0]
PyInt(n) == [kind |-> "int", value |-> n]
Pending == [kind |-> "pending", value |-> 0]
Raised == [kind |-> "raised", value |-> 0]

\* What a user handler may return: every member of the enum, None, and a plain
\* integer whose value is that of a member.
HandlerResults == { SUCCESS, RETRY, DROP, PyNone, PyInt(1) }
NonDispositions == { PyNone, PyInt(1) }

----------------------------------------------------------------------------
(* Names used by the application under test *)

on_prefix == << "o","n","_" >>
StateChangeEvent == << "S","t","a","t","e","C","h","a","n","g","e","E","v","e","n","t" >>
CreatedStateChangeEvent == << "C","r","e","a","t","e","d","S","t","a","t","e","C","h","a","n","g","e","E","v","e","n","t" >>
TaskDoneStateChangeEvent == << "T","a","s","k","D","o","n","e","S","t","a","t","e","C","h","a","n","g","e","E","v","e","n","t" >>
on_created == << "o","n","_","c","r","e","a","t","e","d" >>
on_task_done == << "o","n","_","t","a","s","k","_","d","o","n","e" >>
handle_created == << "h","a","n","d","l","e","_","c","r","e","a","t","e","d" >>
on_deleted == << "o","n","_","d","e","l","e","t","e","d" >>
created == << "c","r","e","a","t","e","d" >>
task_done == << "t","a","s","k","-","d","o","n","e" >>
StateChangeEventCreatedStateChangeEvent == StateChangeEvent \o CreatedStateChangeEvent
g1 == << "g","1" >>
g2 == << "g","2" >>
created_g1 == << "c","r","e","a","t","e","d","|","g","1" >>
env_filter_text == << "c","r","e","a","t","e","d","|","g","2",",","t","a","s","k","-","d","o","n","e","|","g","1" >>

\* StateChangeEventBase.get_event_classes(): the payload types the application
\* declares, in discovery order.
EventClasses == << CreatedStateChangeEvent, TaskDoneStateChangeEvent >>

NoAnnotation == [kind |-> "none", name |-> <<>>]
DictAnnotation == [kind |-> "dict", name |-> <<>>]
ClassAnnotation(c) == [kind |-> "class", name |-> c]

\* A use of @consume: the decorated function (its name, its parameters, the
\* values its body may return) and the decorator's arguments.
Consume(name, nargs, annotation, returns, max_message_count) ==
    [ name |-> name, nargs |-> nargs, annotation |-> annotation,
      returns |-> returns,
      topic_name |-> NoneStr, subscription_name |-> NoneStr,
      max_message_count |-> max_message_count,
      max_wait_time |-> NoneInt, max_lock_renewal_duration |-> NoneInt ]

\* The decorated functions of the application, in the order of its text: the
\* decorator runs once for each function, when the function is defined.
ConsumeRequests ==
    << Consume(on_created, 1, NoAnnotation, { SUCCESS, RETRY, DROP, PyNone }, NoneInt),
       Consume(on_task_done, 1, DictAnnotation, { SUCCESS, PyInt(1) }, 1),
       Consume(handle_created, 1, NoAnnotation, { SUCCESS }, NoneInt) >>

Position(req) == CHOOSE k \in DOMAIN requests : requests[k] = req

\* Further applications, one trait each.  Their handlers return SUCCESS only.
Handler(name, nargs, annotation) == Consume(name, nargs, annotation, { SUCCESS }, NoneInt)

\* @consume(topic_name=..., subscription_name=...) on functions of any name.
ExplicitRequests ==
    << [Handler(on_created, 1, DictAnnotation) EXCEPT
            !.topic_name = Some(task_done), !.subscription_name = Some(g2)],
       [Handler(handle_created, 1, NoAnnotation) EXCEPT !.topic_name = Some(created)] >>

\* Functions named for, or given, a topic no event class resolves to.
UnknownTopicRequests ==
    << Handler(on_deleted, 1, NoAnnotation),
       [Handler(on_created, 1, NoAnnotation) EXCEPT !.topic_name = Some(g1)] >>

\* Functions whose parameters wrap_handler cannot serve.
TwoParameterRequests == << Handler(on_created, 2, NoAnnotation) >>
WrongAnnotationRequests ==
    << Handler(on_created, 1, ClassAnnotation(TaskDoneStateChangeEvent)) >>

\* @consume(max_message_count=..., max_wait_time=..., max_lock_renewal_duration=...)
TunedRequests ==
    << [Handler(on_created, 1, ClassAnnotation(CreatedStateChangeEvent)) EXCEPT
            !.max_message_count = 0, !.max_wait_time = 0,
            !.max_lock_renewal_duration = 0],
       [Handler(on_task_done, 1, DictAnnotation) EXCEPT
            !.max_message_count = 1, !.max_wait_time = 5,
            !.max_lock_renewal_duration = 60] >>

\* Two event classes whose names give the same topic name.
CollidingEventClasses ==
    << CreatedStateChangeEvent, StateChangeEventCreatedStateChangeEvent >>

Application(classes, uses) == [event_classes |-> classes, requests |-> uses]

Applications ==
    { Application(EventClasses, ConsumeRequests),
      Application(EventClasses, ExplicitRequests),
      Application(EventClasses, UnknownTopicRequests),
      Application(EventClasses, TwoParameterRequests),
      Application(EventClasses, WrongAnnotationRequests),
      Application(EventClasses, TunedRequests),
      Application(CollidingEventClasses, << Handler(on_created, 1, NoAnnotation) >>) }

\* The arguments run() is called with.
FilterArguments == { NoneStr, Some(<<>>), Some(<< created_g1 >>) }

\* The values of the SUBSCRIBER_FILTER environment variable.
FilterEnvironments == { NoneStr, Some(env_filter_text) }

----------------------------------------------------------------------------
(* Naming and the event class map *)

get_topic_name_from_method(function_name) ==
    IF ~StartsWith(function_name, on_prefix)
    THEN [error |-> "name_not_on_", topic_name |-> <<>>]
    ELSE [error |-> "none",
          topic_name |-> snake_to_kebab_case(SubSeq(function_name, 4, Len(function_name)))]

get_topic_name_from_event_class(event_class_name) ==
    IF ~EndsWith(event_class_name, StateChangeEvent)
    THEN [error |-> "name_not_StateChangeEvent", topic_name |-> <<>>]
    ELSE [error |-> "none",
          topic_name |-> pascal_to_kebab_case(Remove(event_class_name, StateChangeEvent))]

\* The dict comprehension of _init_event_classes: a later class replaces an
\* earlier one with the same topic name.
RECURSIVE _init_event_classes(_)
_init_event_classes(classes) ==
    IF classes = <<>> THEN [t \in {} |-> <<>>]
    ELSE LET n == Len(classes)
             m == _init_event_classes(SubSeq(classes, 1, n - 1))
             topic == get_topic_name_from_event_class(classes[n]).topic_name
         IN [t \in DOMAIN m \cup {topic} |-> IF t = topic THEN classes[n] ELSE m[t]]

_default_subscription_name == g1
_default_max_message_count == MAX_MESSAGE_COUNT
_default_max_wait_time == MAX_WAIT_TIME
_default_max_lock_renewal_duration == MAX_LOCK_RENEWAL_DURATION

----------------------------------------------------------------------------
(* Registration: consume() and _get_subscription_from_method *)

_get_subscription_from_method(req, map) ==
    LET notification_type == get_topic_name_from_method(req.name)
        subscription_name == IF req.subscription_name.is_none
                             THEN _default_subscription_name
                             ELSE req.subscription_name.val
        topic_name == IF req.topic_name.is_none
                      THEN notification_type.topic_name
                      ELSE req.topic_name.val
        none == [ topic |-> <<>>, subscription_name |-> <<>>, func |-> req,
                  event_class |-> <<>>, max_message_count |-> NoneInt,
                  max_wait_time |-> NoneInt, max_lock_renewal_duration |-> NoneInt ]
    IN IF notification_type.error # "none"
       THEN [error |-> notification_type.error, subscription |-> none]
       ELSE IF topic_name \notin DOMAIN map
       THEN [error |-> "no_event_class", subscription |-> none]
       ELSE [error |-> "none",
             subscription |->
                [ topic |-> topic_name, subscription_name |-> subscription_name,
                  func |-> req, event_class |-> map[topic_name],
                  max_message_count |-> req.max_message_count,
                  max_wait_time |-> req.max_wait_time,
                  max_lock_renewal_duration |-> req.max_lock_renewal_duration ]]

consume(req) ==
    /\ run_pc = "idle"
    /\ reg_error = "none"
    /\ \A k \in DOMAIN _subscriptions :
            Position(_subscriptions[k].func) < Position(req)
    /\ LET r == _get_subscription_from_method(req, _topic_to_event_class_map)
       IN IF r.error # "none"
          THEN /\ reg_error' = r.error
               /\ UNCHANGED _subscriptions
          ELSE /\ _subscriptions' = Append(_subscriptions, r.subscription)
               /\ UNCHANGED reg_error
    /\ UNCHANGED << SUBSCRIBER_FILTER, event_classes, requests,
                    _topic_to_event_class_map, _is_cancelled,
                    run_pc, run_filter, client, runners, delivered, faults >>

----------------------------------------------------------------------------
(* wrap_handler: one invocation per received message *)

\* What a message body is to the deserializer: "valid" parses and has the fields
\* of the event class, "missing_field" parses to a dict without them, "not_json"
\* does not parse.  A message keeps the body that failed to convert; a converted
\* body is the handler's payload and is not looked at again.
Bodies == { "valid", "missing_field", "not_json" }

NewMessage ==
    [ body |-> "unread", pc |-> "new", result |-> Pending,
      ack |-> 0, abandon |-> 0, reject |-> 0, applied |-> "none" ]

\* Lines 235-242: TRUE when a payload is produced, FALSE when the step raises.
ConvertPayload(subscription, body) ==
    IF body = "not_json" THEN FALSE                          \* jsons.loads
    ELSE IF subscription.func.nargs # 1 THEN FALSE           \* _get_payload_type_from_method
    ELSE IF subscription.func.annotation = DictAnnotation THEN TRUE
    ELSE IF \/ subscription.func.annotation = NoAnnotation
            \/ subscription.func.annotation = ClassAnnotation(subscription.event_class)
         THEN body = "valid"                                 \* parse_obj_as
    ELSE FALSE                                               \* Unsupported payload type

\* The result is compared by its value, as an IntEnum member would be.
DispositionForByValue(result) ==
    IF result.kind \in {"ConsumerResult", "int"} /\ result.value = 1 THEN "abandon"
    ELSE IF result.kind \in {"ConsumerResult", "int"} /\ result.value = 2 THEN "reject"
    ELSE "ack"

\* Lines 249-258: the receiver call a handler result leads to.
DispositionFor(result) ==
    IF result = RETRY THEN "abandon"
    ELSE IF result = DROP THEN "reject"
    ELSE "ack"

Issue(msg, call) ==
    [ msg EXCEPT !.ack = @ + (IF call = "ack" THEN 1 ELSE 0),
                 !.abandon = @ + (IF call = "abandon" THEN 1 ELSE 0),
                 !.reject = @ + (IF call = "reject" THEN 1 ELSE 0) ]

\* received_msgs (line 299) is a bag of messages: the code treats the messages
\* of a batch alike and in no order.
NewBatch(n) == IF n = 0 THEN EmptyBag ELSE [msg \in {NewMessage} |-> n]

\* The message tasks of a batch run on their own once gather has started them,
\* also after the runner that started them has ended.
HasMessage(i, msg) == i \in DOMAIN runners /\ BagIn(msg, runners[i].batch)
SetMsg(i, msg, new) ==
    runners' = [runners EXCEPT ![i].batch = (@ (-) SetToBag({msg})) (+) SetToBag({new})]

\* What the runners and the message tasks leave alone.
UnchangedApp ==
    UNCHANGED << SUBSCRIBER_FILTER, event_classes, requests,
                    _topic_to_event_class_map, _subscriptions,
                 _is_cancelled, reg_error, run_pc, run_filter, client >>

\* Lines 235-246: convert the payload and call the decorated function.
WrapHandlerStart(i, msg, body) ==
    /\ HasMessage(i, msg)
    /\ msg.pc = "new"
    /\ IF ConvertPayload(_subscriptions[i], body)
       THEN SetMsg(i, msg, [msg EXCEPT !.body = "converted", !.pc = "handler"])
       ELSE SetMsg(i, msg, [msg EXCEPT !.body = body, !.pc = "raised"])
    /\ UNCHANGED << delivered, faults >>
    /\ UnchangedApp

\* Lines 246-258: the decorated function returns and the receiver is called.
HandlerReturns(i, msg, result) ==
    /\ HasMessage(i, msg)
    /\ msg.pc = "handler"
    /\ result \in _subscriptions[i].func.returns
    /\ SetMsg(i, msg, Issue([msg EXCEPT !.result = result, !.pc = "disposing"],
                          DispositionFor(result)))
    /\ UNCHANGED << delivered, faults >>
    /\ UnchangedApp

\* Lines 246, 259-261: the decorated function raises and the message is abandoned.
HandlerRaises(i, msg) ==
    /\ HasMessage(i, msg)
    /\ msg.pc = "handler"
    /\ SetMsg(i, msg, Issue([msg EXCEPT !.result = Raised, !.pc = "abandoning"],
                          "abandon"))
    /\ UNCHANGED << delivered, faults >>
    /\ UnchangedApp

\* Lines 251, 254, 258: the receiver call of the try block returns.
DispositionReturns(i, msg) ==
    /\ HasMessage(i, msg)
    /\ msg.pc = "disposing"
    /\ SetMsg(i, msg, [msg EXCEPT !.pc = "done",
                               !.applied = DispositionFor(msg.result)])
    /\ UNCHANGED << delivered, faults >>
    /\ UnchangedApp

\* Lines 251, 254, 258-261: the receiver call of the try block raises; the
\* except clause abandons the message.
DispositionRaises(i, msg) ==
    /\ HasMessage(i, msg)
    /\ msg.pc = "disposing"
    /\ faults < MaxFaults
    /\ faults' = faults + 1
    /\ SetMsg(i, msg, Issue([msg EXCEPT !.pc = "abandoning"], "abandon"))
    /\ UNCHANGED delivered
    /\ UnchangedApp

\* Line 261: abandon_message of the except clause returns.
AbandonReturns(i, msg) ==
    /\ HasMessage(i, msg)
    /\ msg.pc = "abandoning"
    /\ SetMsg(i, msg, [msg EXCEPT !.pc = "done", !.applied = "abandon"])
    /\ UNCHANGED << delivered, faults >>
    /\ UnchangedApp

\* Line 261: abandon_message of the except clause raises out of wrap_handler.
AbandonRaises(i, msg) ==
    /\ HasMessage(i, msg)
    /\ msg.pc = "abandoning"
    /\ faults < MaxFaults
    /\ faults' = faults + 1
    /\ SetMsg(i, msg, [msg EXCEPT !.pc = "raised"])
    /\ UNCHANGED delivered
    /\ UnchangedApp

----------------------------------------------------------------------------
(* _process_subscription: the receive loop of one subscription *)

NoRunner ==
    [ pc |-> "none", receiver |-> "none", renewer |-> "none", batch |-> EmptyBag,
      fetched |-> FALSE, late |-> 0, cancelled_at_launch |-> FALSE,
      max_message_count |-> NoneInt, max_wait_time |-> NoneInt,
      max_lock_renewal_duration |-> NoneInt ]
PendingRunner == [NoRunner EXCEPT !.pc = "pending"]

\* Line 277: `subscription.max_message_count or self._default_max_message_count`
EffectiveMaxMessageCount(subscription) ==
    IF subscription.max_message_count = NoneInt \/ subscription.max_message_count = 0
    THEN _default_max_message_count
    ELSE subscription.max_message_count

\* Line 278: `subscription.max_wait_time or self._default_max_wait_time`
EffectiveMaxWaitTime(subscription) ==
    IF subscription.max_wait_time = NoneInt \/ subscription.max_wait_time = 0
    THEN _default_max_wait_time
    ELSE subscription.max_wait_time

\* Line 279: `subscription.max_lock_renewal_duration or
\* self._default_max_lock_renewal_duration`
EffectiveMaxLockRenewalDuration(subscription) ==
    IF \/ subscription.max_lock_renewal_duration = NoneInt
       \/ subscription.max_lock_renewal_duration = 0
    THEN _default_max_lock_renewal_duration
    ELSE subscription.max_lock_renewal_duration

Min(a, b) == IF a < b THEN a ELSE b

\* Lines 277-292: compute the tuning values, create the lock renewer and the
\* receiver, enter the receiver.
RunnerStart(i) ==
    /\ i \in DOMAIN runners
    /\ runners[i].pc = "pending"
    /\ runners' = [runners EXCEPT
          ![i].pc = "check", ![i].renewer = "open", ![i].receiver = "open",
          ![i].max_message_count = EffectiveMaxMessageCount(_subscriptions[i]),
          ![i].max_wait_time = EffectiveMaxWaitTime(_subscriptions[i]),
          ![i].max_lock_renewal_duration =
                EffectiveMaxLockRenewalDuration(_subscriptions[i])]
    /\ UNCHANGED << delivered, faults >>
    /\ UnchangedApp

\* Leaving `async with receiver` closes the receiver.
LeaveReceiver(runner, pc) == [runner EXCEPT !.pc = pc, !.receiver = "closed"]

\* Line 293: the loop condition; lines 316-318 when it is false.
RunnerCheck(i) ==
    /\ i \in DOMAIN runners
    /\ runners[i].pc = "check"
    /\ runners' = [runners EXCEPT ![i] = IF _is_cancelled
                                         THEN LeaveReceiver(@, "stopped")
                                         ELSE [@ EXCEPT !.pc = "fetch"]]
    /\ UNCHANGED << delivered, faults >>
    /\ UnchangedApp

\* Lines 298-301: receive_messages is called.  `fetched` tells that the runner
\* has called it, `late` counts the calls made while the cancellation flag is set,
\* `cancelled_at_launch` tells that the flag was set when run() created the runner.
RunnerReceive(i) ==
    /\ i \in DOMAIN runners
    /\ runners[i].pc = "fetch"
    /\ runners' = [runners EXCEPT ![i].pc = "receiving",
                                  ![i].fetched = TRUE,
                                  ![i].late = @ + (IF _is_cancelled THEN 1 ELSE 0)]
    /\ UNCHANGED << delivered, faults >>
    /\ UnchangedApp

\* An empty batch goes straight to the next receive_messages call.
AfterReceiveNoRecheck(runner, n) ==
    IF n = 0
    THEN [runner EXCEPT !.pc = "fetch", !.batch = NewBatch(n)]
    ELSE [runner EXCEPT !.pc = "gather", !.batch = NewBatch(n)]

\* Where the loop goes with the batch receive_messages returned (lines 303-311):
\* back to the loop condition when it is empty, to the gather otherwise.
AfterReceive(runner, n) ==
    IF n = 0
    THEN [runner EXCEPT !.pc = "check", !.batch = NewBatch(n)]
    ELSE [runner EXCEPT !.pc = "gather", !.batch = NewBatch(n)]

\* Lines 299-311: receive_messages returns n messages.
RunnerReceiveReturns(i, n) ==
    /\ i \in DOMAIN runners
    /\ runners[i].pc = "receiving"
    /\ n <= Min(runners[i].max_message_count, MaxMessages - delivered)
    /\ runners' = [runners EXCEPT ![i] = AfterReceive(@, n)]
    /\ delivered' = delivered + n
    /\ UNCHANGED faults
    /\ UnchangedApp

\* Line 299: receive_messages raises, out of the loop and out of the receiver.
RunnerReceiveRaises(i) ==
    /\ i \in DOMAIN runners
    /\ runners[i].pc = "receiving"
    /\ faults < MaxFaults
    /\ faults' = faults + 1
    /\ runners' = [runners EXCEPT ![i] = LeaveReceiver(@, "failed")]
    /\ UNCHANGED delivered
    /\ UnchangedApp

\* A join that returns with the first wrap_handler that has returned.
BatchJoinedFirstCompleted(runner) ==
    \E msg \in BagToSet(runner.batch) : msg.pc = "done"

\* asyncio.gather (line 311) returns once every wrap_handler has returned.
BatchJoined(runner) == \A msg \in BagToSet(runner.batch) : msg.pc = "done"

\* asyncio.gather raises as soon as one wrap_handler has raised; the others
\* are not cancelled.
BatchRaised(runner) == \E msg \in BagToSet(runner.batch) : msg.pc = "raised"

\* Lines 311-314 and back to line 293.
RunnerJoin(i) ==
    /\ i \in DOMAIN runners
    /\ runners[i].pc = "gather"
    /\ BatchJoined(runners[i])
    /\ runners' = [runners EXCEPT ![i].pc = "check"]
    /\ UNCHANGED << delivered, faults >>
    /\ UnchangedApp

\* Line 311: the exception of a wrap_handler leaves the loop and the receiver.
RunnerGatherRaises(i) ==
    /\ i \in DOMAIN runners
    /\ runners[i].pc = "gather"
    /\ BatchRaised(runners[i])
    /\ runners' = [runners EXCEPT ![i] = LeaveReceiver(@, "failed")]
    /\ UNCHANGED << delivered, faults >>
    /\ UnchangedApp

----------------------------------------------------------------------------
(* run() and cancel() *)

NoClient == [created |-> FALSE, sigterm |-> FALSE, entered |-> FALSE, closed |-> 0]

\* The client is created and the signal handler installed before the registry
\* is looked at.
RunStartConnectsFirst(filter) ==
    /\ run_pc = "idle"
    /\ reg_error = "none"
    /\ client' = [client EXCEPT !.created = TRUE, !.sigterm = TRUE]
    /\ IF Len(_subscriptions) = 0
       THEN /\ run_pc' = "no_consumers"
            /\ UNCHANGED run_filter
       ELSE /\ run_pc' = "connected"
            /\ run_filter' = filter
    /\ UNCHANGED << SUBSCRIBER_FILTER, event_classes, requests,
                    _topic_to_event_class_map, _subscriptions,
                    _is_cancelled, reg_error, runners, delivered, faults >>

\* Lines 334-356.
RunStart(filter) ==
    /\ run_pc = "idle"
    /\ reg_error = "none"
    /\ IF Len(_subscriptions) = 0
       THEN /\ run_pc' = "no_consumers"
            /\ UNCHANGED << client, run_filter >>
       ELSE /\ run_pc' = "connected"
            /\ client' = [client EXCEPT !.created = TRUE, !.sigterm = TRUE]
            /\ run_filter' = filter
    /\ UNCHANGED << SUBSCRIBER_FILTER, event_classes, requests,
                    _topic_to_event_class_map, _subscriptions,
                    _is_cancelled, reg_error, runners, delivered, faults >>

\* The argument is used as given.
ResolveFilterArgumentOnly(filter, env) == filter

\* Lines 361-368: the value of the local `filter` at line 370.
ResolveFilter(filter, env) ==
    IF filter.is_none /\ ~env.is_none THEN Some(Split(env.val)) ELSE filter

\* Line 374.
SubscriptionKey(subscription) ==
    subscription.topic \o << "|" >> \o subscription.subscription_name
\* `if not filter or ...`: an empty list selects every subscription.
SelectedWhenFalsy(filter, subscription) ==
    \/ filter.is_none
    \/ filter.val = <<>>
    \/ InList(SubscriptionKey(subscription), filter.val)

Selected(filter, subscription) ==
    filter.is_none \/ InList(SubscriptionKey(subscription), filter.val)

\* Lines 359-376: enter the client, resolve the filter, start the runners.
RunLaunch ==
    /\ run_pc = "connected"
    /\ run_pc' = "gathering"
    /\ client' = [client EXCEPT !.entered = TRUE]
    /\ runners' = [i \in 1..Len(_subscriptions) |->
                     IF Selected(ResolveFilter(run_filter, SUBSCRIBER_FILTER),
                                 _subscriptions[i])
                     THEN [PendingRunner EXCEPT !.cancelled_at_launch = _is_cancelled]
                     ELSE NoRunner]
    /\ UNCHANGED << SUBSCRIBER_FILTER, event_classes, requests,
                    _topic_to_event_class_map, _subscriptions,
                    _is_cancelled, reg_error, run_filter, delivered, faults >>

\* A gather with return_exceptions=True: a runner that raised counts as returned.
RunnersJoinedWithExceptions ==
    \A i \in DOMAIN runners : runners[i].pc \in {"none", "stopped", "failed"}

\* asyncio.gather (line 370) returns once every runner has returned.
RunnersJoined == \A i \in DOMAIN runners : runners[i].pc \in {"none", "stopped"}

\* asyncio.gather raises as soon as one runner has raised; the others are not
\* cancelled.
RunnersRaised == \E i \in DOMAIN runners : runners[i].pc = "failed"

\* The client is closed by its scope and once more by hand.
LeaveClientTwice(c) == [c EXCEPT !.closed = @ + 2]

\* Leaving `async with servicebus_client` closes the client.
LeaveClient(c) == [c EXCEPT !.closed = @ + 1]

\* Lines 370-381 when the gather returns.
RunJoin ==
    /\ run_pc = "gathering"
    /\ RunnersJoined
    /\ run_pc' = "returned"
    /\ client' = LeaveClient(client)
    /\ UNCHANGED << SUBSCRIBER_FILTER, event_classes, requests,
                    _topic_to_event_class_map, _subscriptions,
                    _is_cancelled, reg_error, run_filter, runners, delivered, faults >>

\* Lines 370-381 when the gather raises.
RunGatherRaises ==
    /\ run_pc = "gathering"
    /\ RunnersRaised
    /\ run_pc' = "raised"
    /\ client' = LeaveClient(client)
    /\ UNCHANGED << SUBSCRIBER_FILTER, event_classes, requests,
                    _topic_to_event_class_map, _subscriptions,
                    _is_cancelled, reg_error, run_filter, runners, delivered, faults >>

\* Each call flips the flag.
cancelToggles ==
    /\ reg_error = "none"
    /\ _is_cancelled' = ~_is_cancelled
    /\ UNCHANGED << SUBSCRIBER_FILTER, event_classes, requests,
                    _topic_to_event_class_map, _subscriptions,
                    reg_error, run_pc, run_filter, client, runners, delivered, faults >>

\* Lines 383-385, called by the application or by _sigterm_handler (lines 320-323).
cancel ==
    /\ reg_error = "none"
    /\ _is_cancelled' = TRUE
    /\ UNCHANGED << SUBSCRIBER_FILTER, event_classes, requests,
                    _topic_to_event_class_map, _subscriptions,
                    reg_error, run_pc, run_filter, client, runners, delivered, faults >>

----------------------------------------------------------------------------
(* The state machine *)

Init ==
    /\ SUBSCRIBER_FILTER \in FilterEnvironments
    /\ \E application \in Applications :
          /\ event_classes = application.event_classes
          /\ requests = application.requests
    /\ _topic_to_event_class_map = _init_event_classes(event_classes)
    /\ _subscriptions = <<>>
    /\ _is_cancelled = FALSE
    /\ reg_error = "none"
    /\ run_pc = "idle"
    /\ run_filter = NoneStr
    /\ client = NoClient
    /\ runners = <<>>
    /\ delivered = 0
    /\ faults = 0

Next ==
    \/ \E k \in DOMAIN requests : consume(requests[k])
    \/ \E filter \in FilterArguments : RunStart(filter)
    \/ RunLaunch
    \/ RunJoin
    \/ RunGatherRaises
    \/ cancel
    \/ \E i \in DOMAIN runners : RunnerStart(i)
    \/ \E i \in DOMAIN runners : RunnerCheck(i)
    \/ \E i \in DOMAIN runners : RunnerReceive(i)
    \/ \E i \in DOMAIN runners : \E n \in 0..MaxMessages : RunnerReceiveReturns(i, n)
    \/ \E i \in DOMAIN runners : RunnerReceiveRaises(i)
    \/ \E i \in DOMAIN runners : RunnerJoin(i)
    \/ \E i \in DOMAIN runners : RunnerGatherRaises(i)
    \/ \E i \in DOMAIN runners : \E msg \in BagToSet(runners[i].batch) :
          \E body \in Bodies : WrapHandlerStart(i, msg, body)
    \/ \E i \in DOMAIN runners : \E msg \in BagToSet(runners[i].batch) :
          \E result \in HandlerResults : HandlerReturns(i, msg, result)
    \/ \E i \in DOMAIN runners : \E msg \in BagToSet(runners[i].batch) :
          HandlerRaises(i, msg)
    \/ \E i \in DOMAIN runners : \E msg \in BagToSet(runners[i].batch) :
          DispositionReturns(i, msg)
    \/ \E i \in DOMAIN runners : \E msg \in BagToSet(runners[i].batch) :
          DispositionRaises(i, msg)
    \/ \E i \in DOMAIN runners : \E msg \in BagToSet(runners[i].batch) :
          AbandonReturns(i, msg)
    \/ \E i \in DOMAIN runners : \E msg \in BagToSet(runners[i].batch) :
          AbandonRaises(i, msg)

Spec == Init /\ [][Next]_vars

----------------------------------------------------------------------------
(* Properties *)

Messages == UNION { BagToSet(runners[i].batch) : i \in DOMAIN runners }
RunExited == run_pc \in {"returned", "raised"}
RunLaunched == run_pc \in {"gathering", "returned", "raised"}

\* C1: a message whose payload conversion failed, or whose handler raised, is
\* abandoned: wrap_handler has made exactly one abandon call for it and no
\* other call, instead of raising to the gather of the batch.
C1_FailureBecomesRetry ==
    \A msg \in Messages :
        (msg.body \in Bodies \/ msg.result = Raised)
            => msg.abandon = 1 /\ msg.ack = 0 /\ msg.reject = 0

\* C2: while a runner's receive_messages call is in flight, every message of
\* the batch it fetched before has had a disposition applied.
C2_BatchJoinBarrier ==
    \A i \in DOMAIN runners :
        runners[i].pc = "receiving"
            => \A msg \in BagToSet(runners[i].batch) :
                   msg.pc = "done" /\ msg.applied # "none"

\* C2 witness: a runner fetches again after a batch of two messages.
C2_Witness ==
    \E i \in DOMAIN runners :
        /\ runners[i].pc = "receiving"
        /\ BagCardinality(runners[i].batch) = 2
        /\ \A msg \in BagToSet(runners[i].batch) : msg.applied # "none"

\* C3 as claimed: no runner calls receive_messages once cancel() has been called.
C3_NoReceiveAfterCancel == \A i \in DOMAIN runners : runners[i].late = 0

\* C3 amended: a runner calls receive_messages at most once after cancel() has
\* been called (the call whose loop condition was evaluated before cancel()).
C3_AtMostOneReceiveAfterCancel == \A i \in DOMAIN runners : runners[i].late <= 1

\* C3 witness: a runner that made such a call and then stopped.
C3_Witness ==
    \E i \in DOMAIN runners : runners[i].late = 1 /\ runners[i].pc = "stopped"

\* C4: once cancel() has been called and no collaborator call has raised,
\* run() ends only by returning, with every runner it launched stopped.
C4_CancelledRunReturns ==
    (_is_cancelled /\ faults = 0 /\ RunExited)
        => /\ run_pc = "returned"
           /\ \A i \in DOMAIN runners : runners[i].pc \in {"none", "stopped"}

\* C5: for a message whose handler returned DROP there is exactly one
\* dead_letter_message call and no complete_message or abandon_message call.
C5_DropRejectsOnly ==
    \A msg \in Messages :
        msg.result = DROP
            => msg.reject = 1 /\ msg.ack = 0 /\ msg.abandon = 0

\* C6: for a message whose handler returned a value that is no ConsumerResult
\* (None included) there is exactly one complete_message call.
C6_NonDispositionAcks ==
    \A msg \in Messages : msg.result \in NonDispositions => msg.ack = 1

\* C6 witness: a handler returned None and the message was completed.
C6_Witness ==
    \E msg \in Messages :
        msg.result = PyNone /\ msg.ack = 1 /\ msg.applied = "ack"

\* C7: run() has not ended and the client has not been closed while a runner
\* it launched is still running.
C7_RunWaitsForRunners ==
    (RunExited \/ client.closed > 0)
        => \A i \in DOMAIN runners : runners[i].pc \in {"none", "stopped", "failed"}

\* C8: the client is closed once when run() leaves the scope it entered,
\* whether by returning or by raising, and never before and never twice.
C8_ClientClosedOnce ==
    /\ client.closed <= 1
    /\ RunExited => client.entered /\ client.closed = 1
    /\ run_pc \in {"idle", "no_consumers", "connected", "gathering"} => client.closed = 0

\* C8 witness: run() raised with a failed runner and the client is closed once.
C8_Witness ==
    /\ run_pc = "raised"
    /\ client.closed = 1
    /\ \E i \in DOMAIN runners : runners[i].pc = "failed"

\* C9: a runner exists for a subscription exactly when no filter is in effect
\* or "<topic>|<subscription_name>" is an element of the filter in effect (the
\* argument, else the pieces of SUBSCRIBER_FILTER); a subscription without a
\* runner has no receiver and has called nothing; run() has returned only with
\* every runner stopped.
C9_FilterSelectsRunners ==
    RunLaunched =>
        LET in_effect == IF ~run_filter.is_none THEN run_filter
                         ELSE IF ~SUBSCRIBER_FILTER.is_none
                              THEN Some(Split(SUBSCRIBER_FILTER.val))
                              ELSE NoneStr
            keys == { in_effect.val[j] : j \in DOMAIN in_effect.val }
            key(i) == _subscriptions[i].topic \o << "|" >> \o _subscriptions[i].subscription_name
        IN /\ DOMAIN runners = DOMAIN _subscriptions
           /\ \A i \in DOMAIN runners :
                 /\ runners[i].pc # "none" <=> (in_effect.is_none \/ key(i) \in keys)
                 /\ runners[i].pc = "none" => runners[i] = NoRunner
                 /\ run_pc = "returned" => runners[i].pc \in {"none", "stopped"}

\* C9 witness: of two subscriptions the filter names one; its runner has
\* stopped, the other never started, and run() has returned.
C9_Witness ==
    /\ run_pc = "returned"
    /\ Len(runners) = 2
    /\ ~run_filter.is_none
    /\ \E i, j \in DOMAIN runners :
          /\ runners[i].pc = "stopped" /\ runners[i].fetched
          /\ runners[j].pc = "none"

\* C10: run() on an empty registry raises with no client created, no signal
\* handler installed and no runner started.
C10_EmptyRegistryRaisesFirst ==
    /\ (run_pc # "idle" /\ Len(_subscriptions) = 0)
          => run_pc = "no_consumers" /\ client = NoClient /\ runners = <<>>
    /\ run_pc = "no_consumers" => Len(_subscriptions) = 0

\* C10 witness: run() has raised on an empty registry.
C10_Witness == run_pc = "no_consumers" /\ Len(_subscriptions) = 0

\* C11: a registration resolves the topic from the explicit argument when one
\* is given and only otherwise from the function's name: with an explicit topic
\* that has an event class it adds the subscription for that topic whatever the
\* function is called; it fails for an unknown topic exactly when the resolved
\* topic has no event class, and for the name only when the name is needed.
C11_ExplicitTopicRegisters ==
    [][ \A k \in DOMAIN requests :
          LET req == requests[k]
              explicit == ~req.topic_name.is_none
              named == get_topic_name_from_method(req.name)
              resolvable == explicit \/ named.error = "none"
              resolved == IF explicit THEN req.topic_name.val ELSE named.topic_name
              known == resolved \in DOMAIN _topic_to_event_class_map
          IN consume(req) =>
               /\ (explicit /\ known) =>
                     /\ reg_error' = "none"
                     /\ Len(_subscriptions') = Len(_subscriptions) + 1
                     /\ _subscriptions'[Len(_subscriptions')].topic = resolved
               /\ reg_error' = "no_event_class" <=> (resolvable /\ ~known)
               /\ reg_error' = "name_not_on_" <=> ~resolvable
      ]_vars

\* C12: every subscription of the registry has a handler of exactly one
\* parameter, annotated with nothing, with dict or with the event class of its
\* topic, and no message fails in wrap_handler for the handler's parameters (a
\* body that parses and has the fields of the event class is always converted).
C12_HandlerShapeChecked ==
    /\ \A k \in DOMAIN _subscriptions :
          /\ _subscriptions[k].func.nargs = 1
          /\ _subscriptions[k].func.annotation \in
                { NoAnnotation, DictAnnotation,
                  ClassAnnotation(_subscriptions[k].event_class) }
    /\ \A msg \in Messages : msg.body # "valid"

\* C13: an application is constructed only when no two distinct event classes
\* give the same topic name.
C13_DuplicateStreamRejected ==
    \A a, b \in DOMAIN event_classes :
        event_classes[a] # event_classes[b]
            => get_topic_name_from_event_class(event_classes[a]).topic_name
                 # get_topic_name_from_event_class(event_classes[b]).topic_name

\* C14: the cancellation flag starts unset; cancel() sets it and a further
\* cancel() changes nothing; no step of registration, of run(), of a runner or
\* of a message task unsets it; a runner that run() created with the flag set
\* never calls receive_messages.
C14_CancelIsMonotonic ==
    /\ ~_is_cancelled
    /\ [][ /\ _is_cancelled => _is_cancelled'
           /\ cancel => _is_cancelled'
           /\ (_is_cancelled /\ cancel) => UNCHANGED vars
           /\ \A i \in DOMAIN runners' :
                 runners'[i].cancelled_at_launch
                     => ~runners'[i].fetched /\ runners'[i].late = 0
       ]_vars

\* C14 witness: run() was called after cancel(), its runner stopped without a
\* receive_messages call and run() returned.
C14_Witness ==
    /\ run_pc = "returned"
    /\ \E i \in DOMAIN runners :
          /\ runners[i].cancelled_at_launch
          /\ runners[i].pc = "stopped"
          /\ ~runners[i].fetched

\* C15: a runner holds its lock renewer and its receiver while it is in the
\* receive loop; the renewer is never released before the receiver; a runner
\* that has stopped has released both.
C15_RunnerReleasesResources ==
    \A i \in DOMAIN runners :
        /\ runners[i].pc \in {"check", "fetch", "receiving", "gather"}
              => runners[i].renewer = "open" /\ runners[i].receiver = "open"
        /\ runners[i].renewer = "closed" => runners[i].receiver = "closed"
        /\ runners[i].pc = "stopped"
              => runners[i].receiver = "closed" /\ runners[i].renewer = "closed"

\* A runner that ended because receive_messages raised: it has failed and no
\* message task of its batch has raised.
ReceiveFailed(i) == runners[i].pc = "failed" /\ ~BatchRaised(runners[i])

\* C16: when receive_messages raises in a runner, the runner leaves its
\* receiver, which is closed, and ends as failed with no receiver call made
\* for any message; from then on it takes no step, so it never calls
\* receive_messages again; run() never returns normally once a runner has
\* failed: it can only raise, and while it is still gathering it is able to.
C16_ReceiveFailurePropagates ==
    [][ \A i \in DOMAIN runners :
          /\ RunnerReceiveRaises(i)
                => /\ ReceiveFailed(i)'
                   /\ runners'[i].receiver = "closed"
                   /\ runners'[i].batch = runners[i].batch
          /\ ReceiveFailed(i)
                => /\ runners'[i] = runners[i]
                   /\ run_pc \in {"gathering", "raised"}
                   /\ run_pc' \in {"gathering", "raised"}
                   /\ run_pc = "gathering" => ENABLED RunGatherRaises
      ]_vars

\* C16 witness: receive_messages raised in a runner after it had processed a
\* batch, its receiver is closed and run() has raised.
C16_Witness ==
    /\ run_pc = "raised"
    /\ \E i \in DOMAIN runners :
          /\ ReceiveFailed(i)
          /\ runners[i].receiver = "closed"
          /\ runners[i].batch # EmptyBag

\* C17: for every received message at most one receiver call (complete,
\* abandon or dead-letter) is made, and exactly one has been made when
\* wrap_handler has returned.
C17_OneDispositionPerAttempt ==
    \A msg \in Messages :
        /\ msg.ack + msg.abandon + msg.reject <= 1
        /\ msg.pc = "done" => msg.ack + msg.abandon + msg.reject = 1

\* C18: a runner that has started uses, for each of max_message_count,
\* max_wait_time and max_lock_renewal_duration, the value given to @consume
\* whenever one was given (0 included) and the default of the application
\* only when none was given.
C18_OverridesUsed ==
    \A i \in DOMAIN runners :
        runners[i].pc \notin {"none", "pending"} =>
            /\ runners[i].max_message_count =
                  IF _subscriptions[i].max_message_count # NoneInt
                  THEN _subscriptions[i].max_message_count
                  ELSE _default_max_message_count
            /\ runners[i].max_wait_time =
                  IF _subscriptions[i].max_wait_time # NoneInt
                  THEN _subscriptions[i].max_wait_time
                  ELSE _default_max_wait_time
            /\ runners[i].max_lock_renewal_duration =
                  IF _subscriptions[i].max_lock_renewal_duration # NoneInt
                  THEN _subscriptions[i].max_lock_renewal_duration
                  ELSE _default_max_lock_renewal_duration

\* The receiver calls made so far for the messages of a set.
RECURSIVE ReceiverCalls(_, _)
ReceiverCalls(batch, msgs) ==
    IF msgs = {} THEN 0
    ELSE LET msg == CHOOSE m \in msgs : TRUE
         IN batch[msg] * (msg.ack + msg.abandon + msg.reject)
              + ReceiverCalls(batch, msgs \ {msg})

\* C19: a runner's receiver is closed only when every message task of its
\* batch has ended, and no complete, abandon or dead-letter call is made for
\* a message of a runner whose receiver is closed.
C19_NoDispositionOnClosedReceiver ==
    [][ \A i \in DOMAIN runners :
          /\ runners'[i].receiver = "closed"
                => \A msg \in BagToSet(runners'[i].batch) :
                       msg.pc \in {"done", "raised"}
          /\ runners[i].receiver = "closed"
                => ReceiverCalls(runners'[i].batch, BagToSet(runners'[i].batch))
                     = ReceiverCalls(runners[i].batch, BagToSet(runners[i].batch))
      ]_vars

\* C20: when subscriptions are registered and the filter in effect names none
\* of them, run() creates no runner, no message is received, run() does not
\* raise, it is able to return at once (cancel() called or not), and when it
\* has returned the client is closed.
C20_NoMatchReturns ==
    LET in_effect == IF ~run_filter.is_none THEN run_filter
                     ELSE IF ~SUBSCRIBER_FILTER.is_none
                          THEN Some(Split(SUBSCRIBER_FILTER.val))
                          ELSE NoneStr
        keys == { in_effect.val[j] : j \in DOMAIN in_effect.val }
        key(i) == _subscriptions[i].topic \o << "|" >> \o _subscriptions[i].subscription_name
    IN (/\ RunLaunched
        /\ Len(_subscriptions) > 0
        /\ ~in_effect.is_none
        /\ \A i \in DOMAIN _subscriptions : key(i) \notin keys)
          => /\ Len(runners) = Len(_subscriptions)
             /\ \A i \in DOMAIN runners : runners[i] = NoRunner
             /\ delivered = 0
             /\ run_pc \in {"gathering", "returned"}
             /\ run_pc = "gathering" => ENABLED RunJoin
             /\ run_pc = "returned" => client.closed = 1

\* C20 witness: run() has returned, cancel() was never called, a subscription
\* is registered and no runner was created.
C20_Witness ==
    /\ run_pc = "returned"
    /\ ~_is_cancelled
    /\ Len(_subscriptions) > 0
    /\ Len(runners) = Len(_subscriptions)
    /\ \A i \in DOMAIN runners : runners[i] = NoRunner
    /\ client.closed = 1

====
